---- MODULE Spec2Model ----
(***************************************************************************)
(* working-time-recorder (src/src/main.rs): a command line tool that       *)
(* appends a "start <task>" or "stop" record to a plain-text log file.     *)
(*                                                                         *)
(* One process runs main once.  The state is the process's inputs (its     *)
(* argument vector, the WORKING_TIME_RECORD variable, the home directory,  *)
(* the clock), the file system it writes to, and what the process left     *)
(* behind: standard output, standard error and the exit status.  Text is   *)
(* modelled as TLA+ strings, so formatting, slicing and appending are      *)
(* computed on the bytes.                                                  *)
(*                                                                         *)
(* Rust indexes from 0 and TLA+ from 1: Rust's args[1] is args[2] here.    *)
(***************************************************************************)
EXTENDS Naturals, Sequences, FiniteSets, TLC

VARIABLES
    args,         \* env::args(): the argument vector, program name first
    env,          \* Option: the value of WORKING_TIME_RECORD
    home,         \* Option: what dirs::home_dir() returns
    now,          \* the local clock, in seconds
    fs,           \* the file system: path -> [exists, data]
    pc,           \* "ready": main not yet run; "exited": the process is gone
    result,       \* what execute returned (or that it panicked)
    stdout,       \* what the process printed to standard output
    stderr,       \* what the process printed to standard error
    exit_status,  \* the process's exit status
    fs0,          \* history: the file system before the first process
    fs_before,    \* history: the file system when the process started
    parsed,       \* history: what parse_arguments returned, if it was called
    stamped,      \* history: get_current_time was called
    record,       \* history: the record line the handler composed ("" if none)
    wrote,        \* history: write_to_file was called
    runs,         \* the number of processes started so far
    trace         \* history: per finished process, its record and the bytes it appended

vars == <<args, env, home, now, fs, pc, result, stdout, stderr, exit_status,
          fs0, fs_before, parsed, stamped, record, wrote, runs, trace>>

----------------------------------------------------------------------------
(* Bounds of the model *)

\* the longest argument list after the subcommand
MaxRest == 4

\* the number of invocations in one session on a log file
MaxRuns == 2

----------------------------------------------------------------------------
(* Values *)

None == <<>>
Some(v) == <<v>>

\* src/src/main.rs:6-7 (ASCII stand-ins for the Japanese literals)
TASK_NAME_NOT_PROVIDED_MSG == "task name not provided"
FILENAME_NOT_PROVIDED_MSG == "file name not specified"
\* src/src/main.rs:84, the message of expect()
HOME_DIR_NOT_FOUND_MSG == "home directory not found"
\* src/src/main.rs:87, the message of unwrap() on None
UNWRAP_NONE_MSG == "called Option::unwrap() on a None value"

\* e.to_string() of the io::Error of a failed open and of a failed write
OPEN_ERROR_MSG == "Permission denied (os error 13)"
WRITE_ERROR_MSG == "No space left on device (os error 28)"

Ok == [tag |-> "Ok", msg |-> ""]
Err(m) == [tag |-> "Err", msg |-> m]
Panic(m) == [tag |-> "Panic", msg |-> m]

NotParsed == [tag |-> "NotCalled", msg |-> "", file_path |-> "", remaining_args |-> <<>>]

NoFile == [exists |-> FALSE, data |-> ""]

\* the arguments a command line is built from: both spellings of the flag and
\* two words, each usable as a task name and as a file name
Tokens == {"-f", "--file", "a", "b"}

Subcommands == {"help", "start", "stop", "bogus", "-f"}

RestLists == UNION {[1..n -> Tokens] : n \in 0..MaxRest}

Argv == {<<>>, <<"p">>} \cup {<<"p", s>> \o r : s \in Subcommands, r \in RestLists}

\* WORKING_TIME_RECORD: not set (or not valid Unicode: env::var is Err for
\* both), set to the empty string, set to a file name
EnvValues == {None, Some(""), Some("b")}

\* stands for a path that is not valid Unicode: Path::to_str gives None for it
NOT_UNICODE == "/home/<not unicode>"

\* dirs::home_dir(): none, a directory, a directory with a non-Unicode name
HomeValues == {None, Some("/home/u"), Some(NOT_UNICODE)}

Paths == Tokens \cup {"", "/home/u/working_time_record.txt"}

\* a log written by earlier runs
OldContent == "t0\tstop\t\n"

\* the file system a process may find: no file at all, or every file holding
\* an older record
InitialFs == {[p \in Paths |-> NoFile],
              [p \in Paths |-> [exists |-> TRUE, data |-> OldContent]]}

----------------------------------------------------------------------------
(* The functions of main.rs *)

\* fn get_current_time: the clock's reading, formatted to the second
get_current_time(t) == "t" \o ToString(t)

\* faulty variant: WORKING_TIME_RECORD is never read
get_working_time_record_path_no_env(e, h) ==
    IF h = None
      THEN [panic |-> TRUE, msg |-> HOME_DIR_NOT_FOUND_MSG, value |-> ""]
      ELSE IF h[1] = NOT_UNICODE
             THEN [panic |-> TRUE, msg |-> UNWRAP_NONE_MSG, value |-> ""]
             ELSE [panic |-> FALSE, msg |-> "",
                   value |-> h[1] \o "/" \o "working_time_record.txt"]

\* fn get_working_time_record_path: env::var(..).unwrap_or_else(home_dir()
\* .expect(..).join("working_time_record.txt").to_str().unwrap()); expect
\* panics on None, and so does unwrap when the path is not valid Unicode
get_working_time_record_path(e, h) ==
    IF e # None
      THEN [panic |-> FALSE, msg |-> "", value |-> e[1]]
      ELSE IF h = None
             THEN [panic |-> TRUE, msg |-> HOME_DIR_NOT_FOUND_MSG, value |-> ""]
             ELSE IF h[1] = NOT_UNICODE
                    THEN [panic |-> TRUE, msg |-> UNWRAP_NONE_MSG, value |-> ""]
                    ELSE [panic |-> FALSE, msg |-> "",
                          value |-> h[1] \o "/" \o "working_time_record.txt"]

\* faulty variant: only the short spelling -f is taken as the flag
RECURSIVE parse_loop_short_flag_only(_, _, _, _)
parse_loop_short_flag_only(a, i, file_path, remaining_args) ==
    IF i > Len(a)
      THEN [tag |-> "Ok", msg |-> "", file_path |-> file_path,
            remaining_args |-> remaining_args]
      ELSE IF a[i] = "-f"
             THEN IF i + 1 > Len(a)
                    THEN [tag |-> "Err", msg |-> FILENAME_NOT_PROVIDED_MSG,
                          file_path |-> "", remaining_args |-> <<>>]
                    ELSE parse_loop_short_flag_only(a, i + 2, a[i + 1], remaining_args)
             ELSE parse_loop_short_flag_only(a, i + 1, file_path,
                                             Append(remaining_args, a[i]))

\* the while-let loop of parse_arguments over args.iter().skip(2); i is the
\* place of the element iter.next() returns next
RECURSIVE parse_loop(_, _, _, _)
parse_loop(a, i, file_path, remaining_args) ==
    IF i > Len(a)
      THEN [tag |-> "Ok", msg |-> "", file_path |-> file_path,
            remaining_args |-> remaining_args]
      ELSE IF a[i] \in {"-f", "--file"}
             THEN IF i + 1 > Len(a)
                    THEN [tag |-> "Err", msg |-> FILENAME_NOT_PROVIDED_MSG,
                          file_path |-> "", remaining_args |-> <<>>]
                    ELSE parse_loop(a, i + 2, a[i + 1], remaining_args)
             ELSE parse_loop(a, i + 1, file_path, Append(remaining_args, a[i]))

\* fn parse_arguments: the default path is computed first, then the scan
parse_arguments(a, e, h) ==
    LET d == get_working_time_record_path(e, h)
    IN  IF d.panic
          THEN [tag |-> "Panic", msg |-> d.msg,
                file_path |-> "", remaining_args |-> <<>>]
          ELSE parse_loop(a, 3, d.value, <<>>)

\* what a run of execute leaves behind
Outcome(r, f, out, p, st, rec, w) ==
    [result |-> r, fs |-> f, stdout |-> out, parsed |-> p, stamped |-> st,
     record |-> rec, wrote |-> w]

\* faulty variant: the file is opened with truncate instead of append
write_to_file_truncating(f, file_path, content) ==
    {[result |-> Err(OPEN_ERROR_MSG), fs |-> f]}
    \cup
    (IF file_path = ""
       THEN {}
       ELSE {[result |-> Ok,
              fs |-> [f EXCEPT ![file_path] = [exists |-> TRUE, data |-> content]]]}
            \cup
            {[result |-> Err(WRITE_ERROR_MSG),
              fs |-> [f EXCEPT ![file_path] =
                        [exists |-> TRUE, data |-> SubSeq(content, 1, k)]]]
              : k \in 0..(Len(content) - 1)})

\* faulty variant: the file is opened for writing without append, so the
\* bytes go to the start of the file, over what is there
write_to_file_at_start(f, file_path, content) ==
    LET old == f[file_path].data
        over(n) == SubSeq(content, 1, n) \o SubSeq(old, n + 1, Len(old))
    IN  {[result |-> Err(OPEN_ERROR_MSG), fs |-> f]}
        \cup
        (IF file_path = ""
           THEN {}
           ELSE {[result |-> Ok,
                  fs |-> [f EXCEPT ![file_path] =
                            [exists |-> TRUE, data |-> over(Len(content))]]]}
                \cup
                {[result |-> Err(WRITE_ERROR_MSG),
                  fs |-> [f EXCEPT ![file_path] = [exists |-> TRUE, data |-> over(k)]]]
                  : k \in 0..(Len(content) - 1)})

\* fn write_to_file: the outcomes of open(create, append) followed by
\* write_all.  The open may fail (and must, for the empty path); it creates a
\* missing file.  write_all calls write until all bytes are written or a
\* write fails: on failure the first k bytes, k < len, are in the file.
write_to_file(f, file_path, content) ==
    LET old == f[file_path]
        opened == [exists |-> TRUE, data |-> old.data]
    IN  {[result |-> Err(OPEN_ERROR_MSG), fs |-> f]}
        \cup
        (IF file_path = ""
           THEN {}
           ELSE {[result |-> Ok,
                  fs |-> [f EXCEPT ![file_path] =
                            [opened EXCEPT !.data = old.data \o content]]]}
                \cup
                {[result |-> Err(WRITE_ERROR_MSG),
                  fs |-> [f EXCEPT ![file_path] =
                            [opened EXCEPT !.data = old.data \o SubSeq(content, 1, k)]]]
                  : k \in 0..(Len(content) - 1)})

\* fn display_help
display_help ==
    "Usage:\n"
    \o "  start <task_name> [-f <file>]    Start tracking time for a task.\n"
    \o "  stop                             Stop tracking time.\n"
    \o "  help                             Display this help message.\n"

\* faulty variant: a missing task name is not rejected, the record gets an
\* empty task field
handle_start_command_unchecked(a, e, h, t, f) ==
    LET p == parse_arguments(a, e, h)
    IN  IF p.tag = "Panic"
          THEN {Outcome(Panic(p.msg), f, "", p, FALSE, "", FALSE)}
          ELSE IF p.tag = "Err"
                 THEN {Outcome(Err(p.msg), f, "", p, FALSE, "", FALSE)}
                 ELSE LET timestamp == get_current_time(t)
                          task_name == IF p.remaining_args = <<>> THEN ""
                                       ELSE p.remaining_args[1]
                          rec == timestamp \o "\tstart\t" \o task_name \o "\n"
                      IN  {Outcome(w.result, w.fs, "", p, TRUE, rec, TRUE)
                             : w \in write_to_file(f, p.file_path, rec)}

\* faulty variant: the last positional argument is taken as the task name
handle_start_command_last_arg(a, e, h, t, f) ==
    LET p == parse_arguments(a, e, h)
    IN  IF p.tag = "Panic"
          THEN {Outcome(Panic(p.msg), f, "", p, FALSE, "", FALSE)}
          ELSE IF p.tag = "Err"
                 THEN {Outcome(Err(p.msg), f, "", p, FALSE, "", FALSE)}
                 ELSE LET timestamp == get_current_time(t)
                      IN  IF p.remaining_args = <<>>
                            THEN {Outcome(Err(TASK_NAME_NOT_PROVIDED_MSG), f, "", p,
                                          TRUE, "", FALSE)}
                            ELSE LET task_name == p.remaining_args[Len(p.remaining_args)]
                                     rec == timestamp \o "\tstart\t" \o task_name \o "\n"
                                 IN  {Outcome(w.result, w.fs, "", p, TRUE, rec, TRUE)
                                        : w \in write_to_file(f, p.file_path, rec)}

\* fn handle_start_command
handle_start_command(a, e, h, t, f) ==
    LET p == parse_arguments(a, e, h)
    IN  IF p.tag = "Panic"
          THEN {Outcome(Panic(p.msg), f, "", p, FALSE, "", FALSE)}
          ELSE IF p.tag = "Err"
                 THEN {Outcome(Err(p.msg), f, "", p, FALSE, "", FALSE)}
                 ELSE LET timestamp == get_current_time(t)
                      IN  IF p.remaining_args = <<>>
                            THEN {Outcome(Err(TASK_NAME_NOT_PROVIDED_MSG), f, "", p,
                                          TRUE, "", FALSE)}
                            ELSE LET task_name == p.remaining_args[1]
                                     rec == timestamp \o "\tstart\t" \o task_name \o "\n"
                                 IN  {Outcome(w.result, w.fs, "", p, TRUE, rec, TRUE)
                                        : w \in write_to_file(f, p.file_path, rec)}

\* fn handle_stop_command
handle_stop_command(a, e, h, t, f) ==
    LET p == parse_arguments(a, e, h)
    IN  IF p.tag = "Panic"
          THEN {Outcome(Panic(p.msg), f, "", p, FALSE, "", FALSE)}
          ELSE IF p.tag = "Err"
                 THEN {Outcome(Err(p.msg), f, "", p, FALSE, "", FALSE)}
                 ELSE LET timestamp == get_current_time(t)
                          rec == timestamp \o "\tstop\t\n"
                      IN  {Outcome(w.result, w.fs, "", p, TRUE, rec, TRUE)
                             : w \in write_to_file(f, p.file_path, rec)}

\* faulty variant: the error for an unknown subcommand names the program
\* (args[0]) instead of the subcommand
execute_names_program(a, e, h, t, f) ==
    IF Len(a) < 2
      THEN {Outcome(Err("No subcommand provided."), f, "", NotParsed, FALSE, "", FALSE)}
      ELSE CASE a[2] = "help" ->
                  {Outcome(Ok, f, display_help, NotParsed, FALSE, "", FALSE)}
             [] a[2] = "start" -> handle_start_command(a, e, h, t, f)
             [] a[2] = "stop" -> handle_stop_command(a, e, h, t, f)
             [] OTHER ->
                  {Outcome(Err("Invalid subcommand '" \o a[1] \o "'."), f, "",
                           NotParsed, FALSE, "", FALSE)}

\* fn execute
execute(a, e, h, t, f) ==
    IF Len(a) < 2
      THEN {Outcome(Err("No subcommand provided."), f, "", NotParsed, FALSE, "", FALSE)}
      ELSE CASE a[2] = "help" ->
                  {Outcome(Ok, f, display_help, NotParsed, FALSE, "", FALSE)}
             [] a[2] = "start" -> handle_start_command(a, e, h, t, f)
             [] a[2] = "stop" -> handle_stop_command(a, e, h, t, f)
             [] OTHER ->
                  {Outcome(Err("Invalid subcommand '" \o a[2] \o "'."), f, "",
                           NotParsed, FALSE, "", FALSE)}

\* what main prints to standard error for the result of execute: eprintln of
\* an Err; the panic handler's report of a panic
error_output(r) ==
    CASE r.tag = "Err" -> "Error: " \o r.msg \o "\n"
      [] r.tag = "Panic" -> "thread 'main' panicked:\n" \o r.msg \o "\n"
      [] OTHER -> ""

\* faulty variant: main reports the error and returns, without process::exit
exit_code_no_exit(r) ==
    CASE r.tag = "Panic" -> 101
      [] OTHER -> 0

\* the exit status: process::exit(1) after an Err, 101 from the runtime after
\* a panic, 0 when main returns
exit_code(r) ==
    CASE r.tag = "Err" -> 1
      [] r.tag = "Panic" -> 101
      [] OTHER -> 0

\* the bytes a process appended to the file it resolved
Appended(o) ==
    IF o.wrote
      THEN SubSeq(o.fs[o.parsed.file_path].data,
                  Len(fs[o.parsed.file_path].data) + 1,
                  Len(o.fs[o.parsed.file_path].data))
      ELSE ""

\* fn main: runs execute, reports an error and exits
main ==
    /\ pc = "ready"
    /\ \E o \in execute(args, env, home, now, fs) :
         /\ fs' = o.fs
         /\ result' = o.result
         /\ stdout' = o.stdout
         /\ stderr' = error_output(o.result)
         /\ exit_status' = exit_code(o.result)
         /\ parsed' = o.parsed
         /\ stamped' = o.stamped
         /\ record' = o.record
         /\ wrote' = o.wrote
         /\ trace' = Append(trace, [result |-> o.result, record |-> o.record,
                                    appended |-> Appended(o)])
    /\ pc' = "exited"
    /\ UNCHANGED <<args, env, home, now, fs0, fs_before, runs>>

----------------------------------------------------------------------------
(* One invocation of the tool, by the branch of execute it takes *)

MissingSubcommand == Len(args) < 2 /\ main

Help == Len(args) >= 2 /\ args[2] = "help" /\ main

Start == Len(args) >= 2 /\ args[2] = "start" /\ main

Stop == Len(args) >= 2 /\ args[2] = "stop" /\ main

InvalidSubcommand ==
    Len(args) >= 2 /\ args[2] \notin {"help", "start", "stop"} /\ main

Fresh ==
    /\ pc = "ready"
    /\ result = [tag |-> "None", msg |-> ""]
    /\ stdout = ""
    /\ stderr = ""
    /\ exit_status = 0
    /\ parsed = NotParsed
    /\ stamped = FALSE
    /\ record = ""
    /\ wrote = FALSE

Init ==
    /\ args \in Argv
    /\ env \in EnvValues
    /\ home \in HomeValues
    /\ now = 1
    /\ fs \in InitialFs
    /\ fs0 = fs
    /\ fs_before = fs
    /\ runs = 1
    /\ trace = <<>>
    /\ Fresh

Next == MissingSubcommand \/ Help \/ Start \/ Stop \/ InvalidSubcommand

Spec == Init /\ [][Next]_vars

----------------------------------------------------------------------------
(* A session: several invocations, one after the other, on one log file *)

LogPath == "b"

LogArgv == {<<"p", "start", "a", "-f", "b">>,
            <<"p", "start", "b", "a">>,
            <<"p", "start", "-f", "b">>,
            <<"p", "stop", "--file", "b">>,
            <<"p", "stop">>}

\* the start and stop invocations that resolve LogPath as their file
LogInvocations ==
    {i \in [args : LogArgv, env : {None, Some(LogPath)}, home : {Some("/home/u")}] :
       LET p == parse_arguments(i.args, i.env, i.home)
       IN  p.tag = "Ok" /\ p.file_path = LogPath}

InitLog ==
    /\ \E i \in LogInvocations : args = i.args /\ env = i.env /\ home = i.home
    /\ now = 1
    /\ fs \in InitialFs
    /\ fs0 = fs
    /\ fs_before = fs
    /\ runs = 1
    /\ trace = <<>>
    /\ Fresh

\* the process is gone; the next one starts, later, on the file system as it is
NextInvocation ==
    /\ pc = "exited"
    /\ runs < MaxRuns
    /\ \E i \in LogInvocations : args' = i.args /\ env' = i.env /\ home' = i.home
    /\ now' = now + 1
    /\ runs' = runs + 1
    /\ fs_before' = fs
    /\ pc' = "ready"
    /\ result' = [tag |-> "None", msg |-> ""]
    /\ stdout' = ""
    /\ stderr' = ""
    /\ exit_status' = 0
    /\ parsed' = NotParsed
    /\ stamped' = FALSE
    /\ record' = ""
    /\ wrote' = FALSE
    /\ UNCHANGED <<fs, fs0, trace>>

NextLog == Start \/ Stop \/ NextInvocation

SpecLog == InitLog /\ [][NextLog]_vars

----------------------------------------------------------------------------
(* What the properties speak of, stated on the argument vector itself *)

IsPrefix(p, s) == Len(p) <= Len(s) /\ SubSeq(s, 1, Len(p)) = p

Flags == {"-f", "--file"}

IsCommand == Len(args) >= 2 /\ args[2] \in {"start", "stop"}

\* place i holds a flag: a flag word that is not the value of the flag before it
RECURSIVE IsFlagAt(_, _)
IsFlagAt(a, i) ==
    /\ 3 <= i
    /\ i <= Len(a)
    /\ a[i] \in Flags
    /\ ~IsFlagAt(a, i - 1)

FlagPlaces(a) == {i \in 3..Len(a) : IsFlagAt(a, i)}

ValuePlaces(a) == {i \in 4..Len(a) : IsFlagAt(a, i - 1)}

\* a flag is the last argument and has no value
Dangling(a) == IsFlagAt(a, Len(a))

LastValue(a) == a[CHOOSE i \in ValuePlaces(a) : \A j \in ValuePlaces(a) : j <= i]

PositionalPlaces(a) == (3..Len(a)) \ (FlagPlaces(a) \cup ValuePlaces(a))

\* the arguments that are neither a flag nor a flag's value, in their order
Positionals(a) ==
    LET S == PositionalPlaces(a)
    IN  [j \in 1..Cardinality(S) |->
           a[CHOOSE i \in S : Cardinality({k \in S : k < i}) = j - 1]]

\* the home directory can be determined, as text
HomeUsable == home # None /\ home # Some(NOT_UNICODE)

DefaultPath == IF HomeUsable THEN home[1] \o "/working_time_record.txt"
               ELSE "<no home directory>"

\* the bytes the file at p holds beyond those it held when the process started
Added(p) == SubSeq(fs[p].data, Len(fs_before[p].data) + 1, Len(fs[p].data))

\* write_to_file got past the open
Opened == wrote /\ result # Err(OPEN_ERROR_MSG)

RECURSIVE AllAppended(_)
AllAppended(tr) ==
    IF tr = <<>> THEN "" ELSE AllAppended(SubSeq(tr, 1, Len(tr) - 1)) \o tr[Len(tr)].appended

RECURSIVE RecordsOfSuccessful(_)
RecordsOfSuccessful(tr) ==
    IF tr = <<>> THEN ""
    ELSE RecordsOfSuccessful(SubSeq(tr, 1, Len(tr) - 1))
         \o (IF tr[Len(tr)].result = Ok THEN tr[Len(tr)].record ELSE "")

----------------------------------------------------------------------------
(* C1 *)

\* C1 as stated: after any sequence of start/stop invocations on one log file
\* the file holds its initial content followed by exactly one record line per
\* successful invocation, in call order.
C1_OneLinePerSuccess ==
    fs[LogPath].data = fs0[LogPath].data \o RecordsOfSuccessful(trace)

\* C1 as amended: after any sequence of start/stop invocations on one log file
\* the file holds its initial content followed, in call order, by what each
\* invocation appended: its whole record line if it succeeded, otherwise a
\* proper (possibly empty) prefix of it; the bytes already there are never
\* changed, no other file is touched, and the file exists as soon as one
\* invocation has opened it.
C1_AppendOnlyLog ==
    /\ fs[LogPath].data = fs0[LogPath].data \o AllAppended(trace)
    /\ \A i \in 1..Len(trace) :
         /\ IsPrefix(trace[i].appended, trace[i].record)
         /\ trace[i].result = Ok =>
              trace[i].record # "" /\ trace[i].appended = trace[i].record
         /\ trace[i].result # Ok => trace[i].appended # trace[i].record \/ trace[i].record = ""
    /\ \A p \in Paths \ {LogPath} : fs[p] = fs0[p]
    /\ fs[LogPath].exists <=>
         \/ fs0[LogPath].exists
         \/ \E i \in 1..Len(trace) :
              trace[i].record # "" /\ trace[i].result # Err(OPEN_ERROR_MSG)

\* two invocations succeeded, a start and then a stop, on a log that held a line
C1_Witness ==
    /\ pc = "exited"
    /\ Len(trace) = 2
    /\ trace[1].result = Ok /\ trace[1].record = "t1\tstart\ta\n"
    /\ trace[2].result = Ok /\ trace[2].record = "t2\tstop\t\n"
    /\ fs0[LogPath].data = OldContent
    /\ fs[LogPath].data = OldContent \o "t1\tstart\ta\n" \o "t2\tstop\t\n"

----------------------------------------------------------------------------
(* C2 *)

\* C2 as stated: after a start/stop invocation, failed or not, every file holds
\* either exactly its previous content or that content with the complete
\* record line appended.
C2_AllOrNothing ==
    pc = "exited" =>
      \A p \in Paths :
        \/ fs[p].data = fs_before[p].data
        \/ fs[p].data = fs_before[p].data \o record

\* C2 as amended: after a start/stop invocation the resolved file holds its
\* previous content followed by a prefix of the record line: the whole line
\* exactly if the invocation succeeded, a proper prefix (possibly empty,
\* possibly a partial record) if the write failed, and the file is then
\* created if it was missing; if the invocation failed before the write or in
\* the open, the file system is exactly as before.
C2_PrefixOfRecord ==
    pc = "exited" =>
      /\ \A p \in Paths :
           IF Opened /\ p = parsed.file_path
             THEN /\ fs[p].exists
                  /\ IsPrefix(fs_before[p].data, fs[p].data)
                  /\ IsPrefix(Added(p), record)
                  /\ Added(p) = record <=> result = Ok
             ELSE fs[p] = fs_before[p]
      /\ IsCommand /\ result = Ok => Opened
      /\ Opened => result \in {Ok, Err(WRITE_ERROR_MSG)}

\* a write failed half way on a file that did not exist
C2_Witness ==
    /\ pc = "exited"
    /\ result = Err(WRITE_ERROR_MSG)
    /\ ~fs_before[parsed.file_path].exists
    /\ fs[parsed.file_path].exists
    /\ fs[parsed.file_path].data = "t1\tsta"

----------------------------------------------------------------------------
(* C3 *)

\* C3 as stated: the resolved path is the flag's value if a flag is given,
\* otherwise the value of WORKING_TIME_RECORD if it is set and not empty,
\* otherwise (not set, or empty) <home>/working_time_record.txt.
C3_NonEmptyEnvironment ==
    pc = "exited" /\ IsCommand /\ parsed.tag = "Ok" =>
      parsed.file_path =
        IF ValuePlaces(args) # {} THEN LastValue(args)
        ELSE IF env # None /\ env[1] # "" THEN env[1]
        ELSE DefaultPath

\* C3 as amended: the default is resolved first, as the value of
\* WORKING_TIME_RECORD whenever it is set, the empty string included, and as
\* <home>/working_time_record.txt only if it is not set, which panics if there
\* is no home directory (or none that is valid Unicode); a flag's value then
\* replaces the default.
C3_PathPrecedence ==
    pc = "exited" /\ IsCommand =>
      /\ parsed.tag = "Panic" <=> (env = None /\ ~HomeUsable)
      /\ parsed.tag = "Ok" =>
           parsed.file_path =
             IF ValuePlaces(args) # {} THEN LastValue(args)
             ELSE IF env # None THEN env[1]
             ELSE DefaultPath

\* no flag, the variable set to the empty string: the empty path is resolved
C3_Witness ==
    /\ pc = "exited"
    /\ IsCommand
    /\ FlagPlaces(args) = {}
    /\ env = Some("")
    /\ HomeUsable
    /\ parsed.tag = "Ok"
    /\ parsed.file_path = ""

----------------------------------------------------------------------------
(* C4 *)

\* C4: a start or stop invocation that gives -f <path> never fails for want of
\* a home directory, and resolves the flag's value whatever the environment.
C4_FlagNeedsNoDefault ==
    pc = "exited" /\ IsCommand /\ ValuePlaces(args) # {} /\ ~Dangling(args) =>
      /\ result.tag # "Panic"
      /\ parsed.tag = "Ok"
      /\ parsed.file_path = LastValue(args)

----------------------------------------------------------------------------
(* C5 *)

\* C5 as stated: every invocation that fails prints "Error: <message>" to
\* standard error and exits with status 1; every other exits with status 0.
C5_EveryFailureReported ==
    pc = "exited" =>
      \/ result = Ok /\ exit_status = 0
      \/ result.tag # "Ok" /\ IsPrefix("Error: ", stderr) /\ exit_status = 1

\* C5 as amended: an invocation whose execute returns an error
\* (MissingSubcommand, UnknownSubcommand, TaskNameMissing, FilenameNotProvided,
\* IoFailure) prints "Error: <message>" to standard error and exits with
\* status 1, and a successful one prints no error and exits with status 0; a
\* start or stop invocation with WORKING_TIME_RECORD not set and no home
\* directory (or none that is valid Unicode) panics instead: no "Error: "
\* line, exit status 101.
C5_FailureReported ==
    pc = "exited" =>
      /\ result.tag \in {"Ok", "Err", "Panic"}
      /\ result.tag = "Ok" => stderr = "" /\ exit_status = 0
      /\ result.tag = "Err" =>
           /\ stderr = "Error: " \o result.msg \o "\n"
           /\ exit_status = 1
           /\ \/ result.msg \in {"No subcommand provided.",
                                 TASK_NAME_NOT_PROVIDED_MSG, FILENAME_NOT_PROVIDED_MSG,
                                 OPEN_ERROR_MSG, WRITE_ERROR_MSG}
              \/ Len(args) >= 2 /\ result.msg = "Invalid subcommand '" \o args[2] \o "'."
      /\ result.tag = "Panic" =>
           /\ ~IsPrefix("Error: ", stderr)
           /\ stderr # ""
           /\ exit_status = 101
      /\ result.tag = "Panic" <=> (IsCommand /\ env = None /\ ~HomeUsable)

\* the file could not be opened: reported, status 1
C5_Witness ==
    /\ pc = "exited"
    /\ result = Err(OPEN_ERROR_MSG)
    /\ stderr = "Error: Permission denied (os error 13)\n"
    /\ exit_status = 1

----------------------------------------------------------------------------
(* C6 *)

\* C6: a start or stop invocation whose last argument is a flag without a
\* value fails with FilenameNotProvided, no timestamp taken, no file opened,
\* created or modified.
C6_DanglingFlag ==
    pc = "exited" /\ IsCommand /\ Dangling(args) =>
      /\ result = Err(FILENAME_NOT_PROVIDED_MSG)
      /\ ~stamped
      /\ ~wrote
      /\ fs = fs_before

----------------------------------------------------------------------------
(* C7 *)

\* C7: a start invocation whose parse leaves no positional argument fails with
\* TaskNameMissing, and no file is created or modified.
C7_TaskNameMissing ==
    pc = "exited" /\ Len(args) >= 2 /\ args[2] = "start"
      /\ parsed.tag = "Ok" /\ Positionals(args) = <<>> =>
        /\ result = Err(TASK_NAME_NOT_PROVIDED_MSG)
        /\ ~wrote
        /\ fs = fs_before

\* start -f a, the file missing: the only word is the flag's value
C7_Witness ==
    /\ pc = "exited"
    /\ args = <<"p", "start", "-f", "a">>
    /\ parsed.tag = "Ok"
    /\ parsed.file_path = "a"
    /\ result = Err(TASK_NAME_NOT_PROVIDED_MSG)
    /\ ~fs_before["a"].exists
    /\ ~fs["a"].exists

----------------------------------------------------------------------------
(* C8 *)

\* C8: parse_arguments, scanning from index 2, returns as file path the value
\* after the last flag (the argument after a flag is its value whatever its
\* text, a flag word included, and is no positional), and as positional
\* arguments all other arguments, in order, duplicates kept.
C8_ParseArguments ==
    pc = "exited" /\ IsCommand /\ parsed.tag # "Panic" =>
      /\ parsed.tag = "Err" <=> Dangling(args)
      /\ parsed.tag = "Err" => parsed.msg = FILENAME_NOT_PROVIDED_MSG
      /\ parsed.tag = "Ok" =>
           /\ parsed.remaining_args = Positionals(args)
           /\ ValuePlaces(args) # {} => parsed.file_path = LastValue(args)

\* a flag word taken as the first flag's value, and a later flag that wins
C8_Witness ==
    /\ pc = "exited"
    /\ args = <<"p", "start", "--file", "-f", "-f", "a">>
    /\ parsed.tag = "Ok"
    /\ parsed.file_path = "a"
    /\ parsed.remaining_args = <<>>

----------------------------------------------------------------------------
(* C9 *)

\* C9: a successful start appends <timestamp> TAB start TAB <first positional>
\* LF, whatever further positional arguments follow; a successful stop appends
\* <timestamp> TAB stop TAB LF, whatever positional arguments were given.
C9_RecordLine ==
    pc = "exited" /\ IsCommand /\ result = Ok =>
      /\ record = IF args[2] = "start"
                    THEN get_current_time(now) \o "\tstart\t" \o Positionals(args)[1] \o "\n"
                    ELSE get_current_time(now) \o "\tstop\t\n"
      /\ fs[parsed.file_path].data = fs_before[parsed.file_path].data \o record

\* start b a b: the first of three positional arguments is the task
C9_Witness ==
    /\ pc = "exited"
    /\ args = <<"p", "start", "b", "a", "b">>
    /\ env = None
    /\ result = Ok
    /\ fs_before["/home/u/working_time_record.txt"].data = OldContent
    /\ fs["/home/u/working_time_record.txt"].data = OldContent \o "t1\tstart\tb\n"

----------------------------------------------------------------------------
(* C10 *)

\* C10: with fewer than 2 arguments execute fails with "No subcommand
\* provided."; with argument 1 outside {help, start, stop} it fails naming that
\* argument; help always succeeds; in all three cases no file is created or
\* modified: only start and stop can touch a file.
C10_Dispatch ==
    pc = "exited" =>
      /\ Len(args) < 2 => result = Err("No subcommand provided.")
      /\ Len(args) >= 2 /\ args[2] \notin {"help", "start", "stop"} =>
           result = Err("Invalid subcommand '" \o args[2] \o "'.")
      /\ Len(args) >= 2 /\ args[2] = "help" =>
           result = Ok /\ exit_status = 0 /\ stdout = display_help
      /\ ~IsCommand => fs = fs_before /\ ~wrote /\ parsed = NotParsed

\* help with a dangling flag, no variable and no home directory
C10_Witness ==
    /\ pc = "exited"
    /\ args = <<"p", "help", "a", "-f">>
    /\ env = None
    /\ home = None
    /\ result = Ok
    /\ fs = fs_before

====
